---- MODULE Spec2Model ----
(***************************************************************************)
(* A model of src/black/files.py: project-root discovery, pyproject.toml   *)
(* loading, requires-python inference and the memoised path helpers.       *)
(*                                                                         *)
(* Strings are modelled as sequences of tokens.  A token is an operator    *)
(* ("~=", ">=", ...), an integer, "." , "*" , "," , "-" , "_" or a word    *)
(* holding no punctuation, so that str.replace, f-string formatting and    *)
(* the parsers of the packaging library act on them as on characters.      *)
(* Paths are sequences of parts whose first part is the anchor ("/" or a   *)
(* drive), as pathlib's Path.parts.                                        *)
(***************************************************************************)
EXTENDS Integers, Sequences, FiniteSets, TLC

VARIABLES
    requires_python,  \* the requires-python string handed to the resolver
    specifier_set,    \* the SpecifierSet a caller of strip_specifier_set holds
    strip_in,         \* argument of the last strip_specifier_set call
    strip_out,        \* its return value
    nstrip,           \* number of strip_specifier_set calls made on specifier_set
    targets,          \* result of parse_req_python_specifier: "unset", None or a list
    pyproject_toml,   \* the document _load_toml returned: its tool.black table (in
                      \* document order) and its project.requires-python entry
    config,           \* the dict parse_pyproject_toml returned, in insertion order
    config_pc,        \* "start" before parse_pyproject_toml has returned, then "done"
    sys_platform,     \* sys.platform: "win32" or "linux"
    markers,          \* the filesystem's root markers: for each directory that may
                      \* carry them, its .git, .hg and pyproject.toml entries
    links,            \* the filesystem's symbolic links: link path -> target path
    srcs,             \* the source strings of the command line
    stdin_filename,   \* the --stdin-filename of the command line, or NoName
    resolve_cache,    \* lru_cache of _cached_resolve: <<path, resolved>> entries,
                      \* least recently used first
    root_cache,       \* lru_cache of find_project_root: the entry of this command line
    root_result,      \* what the last find_project_root call returned or raised
    xdg_config_home,  \* os.environ's XDG_CONFIG_HOME, or EnvUnset
    home,             \* the home directory: Path.home() and the expansion of "~"
    user_cache,       \* lru_cache of find_user_pyproject_toml: its one entry
    user_result,      \* what the last find_user_pyproject_toml call returned or raised
    resolve_result,   \* the last _cached_resolve call: its argument and outcome
    first_resolved,   \* history: for each path _cached_resolve has returned for,
                      \* the value it returned the first time
    resolved_again,   \* history: the paths whose Path.resolve() ran more than once
    user_call,        \* history: the environment at the last
                      \* find_user_pyproject_toml call
    user_first        \* history: the first find_user_pyproject_toml call that
                      \* returned: its value, and the environment and links it
                      \* ran with and the entry resolve_cache held for its path

verVars == <<requires_python, specifier_set, strip_in, strip_out, nstrip, targets>>

cfgVars == <<pyproject_toml, config, config_pc>>

fsVars == <<sys_platform, markers, links>>

rootVars == <<srcs, stdin_filename, root_cache, root_result>>

envVars == <<xdg_config_home, home, user_cache, user_result>>

histVars == <<resolve_result, first_resolved, resolved_again, user_call, user_first>>

vars == <<verVars, cfgVars, fsVars, rootVars, resolve_cache, envVars, histVars>>

\* what the resolver, the loader, the root locator and the user-scope
\* locator each leave alone
notVer == <<cfgVars, fsVars, rootVars, resolve_cache, envVars, histVars>>

notCfg == <<verVars, fsVars, rootVars, resolve_cache, envVars, histVars>>

notRoot == <<verVars, cfgVars, envVars, histVars>>

notEnv == <<verVars, cfgVars, rootVars, sys_platform, markers>>

\* Optional[list[TargetVersion]]: not yet computed, None, or a list of minor versions
Unset == [state |-> "unset", list |-> <<>>]

None == [state |-> "none", list |-> <<>>]

Some(list) == [state |-> "list", list |-> list]

(***************************************************************************)
(* Bounds of the model.                                                    *)
(***************************************************************************)
MaxClauses == 2

MaxStrips == 2

\* entries of a tool.black table, and separator characters in one of its keys
MaxKeys == 2

MaxSeps == 2

\* source strings on one command line
MaxSrcs == 2

\* entries the lru_cache of _cached_resolve keeps.  functools.lru_cache keeps
\* 128 entries by default; the model keeps fewer so that an eviction is within
\* reach, the eviction rule being the same at any size.
LruMaxsize == 2

(***************************************************************************)
(* Generic helpers.                                                        *)
(***************************************************************************)
Range(s) == {s[i] : i \in 1..Len(s)}

RECURSIVE SetToSeq(_)
SetToSeq(S) ==
    IF S = {} THEN <<>>
    ELSE LET x == CHOOSE y \in S : TRUE IN <<x>> \o SetToSeq(S \ {x})

RECURSIVE Flatten(_, _)
\* sep.join(parts) for a sequence of token strings
Flatten(parts, sep) ==
    IF parts = <<>> THEN <<>>
    ELSE IF Len(parts) = 1 THEN parts[1]
    ELSE parts[1] \o sep \o Flatten(Tail(parts), sep)

(***************************************************************************)
(* Version strings and specifiers (packaging.version, packaging.specifiers)*)
(***************************************************************************)
\* decimal numerals, NumStr[n + 1] is str(n)
NumStr == <<"0", "1", "2", "3", "4", "5", "6", "7", "8", "9", "10", "11", "12", "13">>

Numerals == Range(NumStr)

IntOf(tok) == CHOOSE n \in 0..(Len(NumStr) - 1) : NumStr[n + 1] = tok

StrOfInt(n) == NumStr[n + 1]

\* Version(string).release: the numeric components in order
Release(version) ==
    LET nums == SelectSeq(version, LAMBDA t : t \in Numerals)
    IN [i \in 1..Len(nums) |-> IntOf(nums[i])]

\* Version.major / Version.minor: release[0], and release[1] or 0 when absent
Major(release) == IF Len(release) >= 1 THEN release[1] ELSE 0

Minor(release) == IF Len(release) >= 2 THEN release[2] ELSE 0

\* ".".join(str(n) for n in release)
VersionStr(release) == Flatten([i \in 1..Len(release) |-> <<StrOfInt(release[i])>>], <<".">>)

\* a release padded with zeros to n components (packaging's _pad_version)
Pad(release, n) == [i \in 1..n |-> IF i <= Len(release) THEN release[i] ELSE 0]

RECURSIVE CmpTuple(_, _)
\* tuple comparison of two equally long releases: -1, 0 or 1
CmpTuple(a, b) ==
    IF a = <<>> THEN 0
    ELSE IF a[1] < b[1] THEN -1
    ELSE IF a[1] > b[1] THEN 1
    ELSE CmpTuple(Tail(a), Tail(b))

Max2(a, b) == IF a >= b THEN a ELSE b

\* comparison of two final releases, trailing zeros insignificant
CmpRelease(a, b) ==
    LET n == Max2(Len(a), Len(b)) IN CmpTuple(Pad(a, n), Pad(b, n))

\* str(Specifier): the operator followed by the version string
SpecifierStr(s) == <<s.operator>> \o s.version

\* Specifier(string)
Specifier(str) == [operator |-> Head(str), version |-> Tail(str)]

IsWildcard(s) == "*" \in Range(s.version)

\* prefix match of "== V.*": the candidate padded to, then cut at, V's length
PrefixMatch(cand, prefix) ==
    SubSeq(Pad(cand, Max2(Len(cand), Len(prefix))), 1, Len(prefix)) = prefix

ButLast(release) == SubSeq(release, 1, Len(release) - 1)

\* Specifier.contains(candidate) for a final-release candidate string
Contains(s, candidate) ==
    LET v == Release(s.version)
        c == Release(candidate)
    IN  CASE s.operator = "===" -> candidate = s.version
          [] s.operator = "==" ->
                IF IsWildcard(s) THEN PrefixMatch(c, v) ELSE CmpRelease(c, v) = 0
          [] s.operator = "!=" ->
                IF IsWildcard(s) THEN ~PrefixMatch(c, v) ELSE CmpRelease(c, v) # 0
          [] s.operator = "~=" -> CmpRelease(c, v) >= 0 /\ PrefixMatch(c, ButLast(v))
          [] s.operator = ">=" -> CmpRelease(c, v) >= 0
          [] s.operator = "<=" -> CmpRelease(c, v) <= 0
          [] s.operator = ">" -> CmpRelease(c, v) > 0
          [] s.operator = "<" -> CmpRelease(c, v) < 0

RECURSIVE SplitComma(_)
\* string.split(",") on a non-empty token string
SplitComma(str) ==
    IF \A i \in 1..Len(str) : str[i] # "," THEN <<str>>
    ELSE LET k == CHOOSE i \in 1..Len(str) :
                      str[i] = "," /\ \A j \in 1..(i - 1) : str[j] # ","
         IN <<SubSeq(str, 1, k - 1)>> \o SplitComma(SubSeq(str, k + 1, Len(str)))

\* SpecifierSet(string): the set of its comma-separated specifiers
SpecifierSet(str) ==
    IF str = <<>> THEN {}
    ELSE {Specifier(chunk) : chunk \in Range(SplitComma(str))}

\* str(SpecifierSet) / ",".join(str(s) for s in specifiers)
JoinSpecifiers(specifiers) ==
    Flatten([i \in 1..Len(specifiers) |-> SpecifierStr(specifiers[i])], <<",">>)

\* a filter that keeps a candidate as soon as one specifier accepts it
FilterAny(specifiers, candidates) ==
    SelectSeq(candidates, LAMBDA c : \E i \in 1..Len(specifiers) : Contains(specifiers[i], c))

RECURSIVE FilterAll(_, _)
\* SpecifierSet.filter: every specifier filters what the previous ones left
FilterAll(specifiers, candidates) ==
    IF specifiers = <<>> THEN candidates
    ELSE FilterAll(Tail(specifiers),
                   SelectSeq(candidates, LAMBDA c : Contains(Head(specifiers), c)))

(***************************************************************************)
(* black.mode.TargetVersion: the supported minor versions in definition    *)
(* order (PY33 .. PY313).                                                  *)
(***************************************************************************)
TargetVersion == <<3, 4, 5, 6, 7, 8, 9, 10, 11, 12, 13>>

(***************************************************************************)
(* strip_specifier_set                                                     *)
(***************************************************************************)
\* a truncation that drops the last release component instead of keeping two
StrippedStrDropLast(operator, release) == <<operator>> \o VersionStr(ButLast(release))

\* f"{operator}{version.major}.{version.minor}"
StrippedStr(operator, release) ==
    <<operator, StrOfInt(Major(release)), ".", StrOfInt(Minor(release))>>

\* the body of the loop: what one specifier s contributes
StripSpecifier(s) ==
    IF "*" \in Range(SpecifierStr(s)) THEN s
    ELSE IF s.operator \in {"~=", "==", ">=", "==="}
         THEN Specifier(StrippedStr(s.operator, Release(s.version)))
    ELSE IF s.operator = ">"
         THEN IF Len(Release(s.version)) > 2
              THEN Specifier(StrippedStr(">=", Release(s.version)))
              ELSE s
    ELSE s

strip_specifier_set(set) ==
    LET order == SetToSeq(set)
        specifiers == [i \in 1..Len(order) |-> StripSpecifier(order[i])]
    IN SpecifierSet(JoinSpecifiers(specifiers))

(***************************************************************************)
(* parse_req_python_specifier                                              *)
(***************************************************************************)
\* the keys of target_version_map, f"3.{v.value}", in TargetVersion order
TargetVersionKeys == [i \in 1..Len(TargetVersion) |-> <<"3", ".", StrOfInt(TargetVersion[i])>>]

\* target_version_map[key].value
TargetOfKey(key) == IntOf(key[3])

parse_req_python_specifier(req) ==
    LET stripped == strip_specifier_set(SpecifierSet(req))
        compatible_versions == FilterAll(SetToSeq(stripped), TargetVersionKeys)
    IN  IF stripped = {} THEN None
        ELSE IF compatible_versions # <<>>
             THEN Some([i \in 1..Len(compatible_versions) |->
                            TargetOfKey(compatible_versions[i])])
        ELSE None

(***************************************************************************)
(* parse_req_python_version and infer_target_version                       *)
(***************************************************************************)
\* project.requires-python: absent from the document, or a string
Absent == [present |-> FALSE, str |-> <<>>]

Present(str) == [present |-> TRUE, str |-> str]

\* Version(string) raises InvalidVersion unless the string is a bare version
IsVersion(str) == str # <<>> /\ \A i \in 1..Len(str) : str[i] \in Numerals \cup {"."}

\* parse_req_python_version, for a string Version() accepts
parse_req_python_version(req) ==
    LET release == Release(req)
    IN  IF release[1] # 3 THEN None
        ELSE IF Len(release) < 2 THEN None                    \* IndexError
        ELSE IF release[2] \notin Range(TargetVersion) THEN None  \* ValueError
        ELSE Some(<<release[2]>>)

\* SpecifierSet(string) raises InvalidSpecifier unless every clause starts
\* with an operator
IsSpecifierSet(str) ==
    str = <<>> \/ \A chunk \in Range(SplitComma(str)) :
                      chunk # <<>> /\ Head(chunk) \in {"~=", "==", "===", ">=", ">", "<", "<=", "!="}

infer_target_version(doc) ==
    IF ~doc.requires.present THEN None
    ELSE IF IsVersion(doc.requires.str) THEN parse_req_python_version(doc.requires.str)
    ELSE IF IsSpecifierSet(doc.requires.str) THEN parse_req_python_specifier(doc.requires.str)
    ELSE None

(***************************************************************************)
(* parse_pyproject_toml                                                    *)
(***************************************************************************)
RECURSIVE ReplaceDoubleHyphen(_)
\* k.replace("--", ""): leftmost, non-overlapping, one pass
ReplaceDoubleHyphen(k) ==
    IF Len(k) < 2 THEN k
    ELSE IF k[1] = "-" /\ k[2] = "-" THEN ReplaceDoubleHyphen(SubSeq(k, 3, Len(k)))
    ELSE <<k[1]>> \o ReplaceDoubleHyphen(Tail(k))

\* k.replace("-", "_")
ReplaceHyphen(k) == [i \in 1..Len(k) |-> IF k[i] = "-" THEN "_" ELSE k[i]]

\* a normalisation that only renames hyphens
NormalizeKeyRenameOnly(k) == ReplaceHyphen(k)

\* k.replace("--", "").replace("-", "_")
NormalizeKey(k) == ReplaceHyphen(ReplaceDoubleHyphen(k))

Keys(dict) == {dict[i].key : i \in 1..Len(dict)}

\* dict[key] = value: an existing key keeps its place and takes the new value
DictSet(dict, key, value) ==
    IF key \in Keys(dict)
    THEN [i \in 1..Len(dict) |-> IF dict[i].key = key
                                 THEN [key |-> key, value |-> value] ELSE dict[i]]
    ELSE Append(dict, [key |-> key, value |-> value])

RECURSIVE NormalizeItems(_, _)
\* {normalize(k): v for k, v in config.items()}, built in iteration order
NormalizeItems(items, dict) ==
    IF items = <<>> THEN dict
    ELSE NormalizeItems(Tail(items),
                        DictSet(dict, NormalizeKey(Head(items).key), Head(items).value))

target_version == <<"target", "_", "version">>

\* [v.name.lower() for v in inferred_target_version]
TargetNames(list) == [i \in 1..Len(list) |-> <<"py3", StrOfInt(list[i])>>]

parse_pyproject_toml(doc) ==
    LET normalized == NormalizeItems(doc.black, <<>>)
        inferred_target_version == infer_target_version(doc)
    IN  IF target_version \notin Keys(normalized) /\ inferred_target_version # None
        THEN DictSet(normalized, target_version, TargetNames(inferred_target_version.list))
        ELSE normalized

(***************************************************************************)
(* The loader's inputs: tool.black tables of at most MaxKeys entries whose *)
(* keys hold at most MaxSeps hyphens and underscores.                      *)
(***************************************************************************)
RECURSIVE SepRuns(_)
\* the strings of exactly n separator characters
SepRuns(n) ==
    IF n = 0 THEN {<<>>}
    ELSE {<<c>> \o r : c \in {"-", "_"}, r \in SepRuns(n - 1)}

\* "line" and "length" behind a run of hyphens and around a run of separators
InputKeys ==
    {[n \in 1..i |-> "-"] \o <<"line">> \o b \o <<"length">> :
        <<i, b>> \in UNION {{i} \X SepRuns(j) :
                               <<i, j>> \in {x \in (0..MaxSeps) \X (0..MaxSeps) :
                                                x[1] + x[2] <= MaxSeps}}}
    \cup {<<"target", "-", "version">>, <<"target", "_", "version">>,
          <<"-", "-", "target", "-", "version">>}

\* the i-th entry's value: opaque, and different for every entry
InputValue(i) == <<<<"value", StrOfInt(i)>>>>

\* the tables of n entries: distinct keys in any document order
InputTables(n) ==
    {[i \in 1..n |-> [key |-> f[i], value |-> InputValue(i)]] :
        f \in {g \in [1..n -> InputKeys] : \A i, j \in 1..n : i # j => g[i] # g[j]}}

InputRequires ==
    {Absent, Present(<<"3", ".", "9">>), Present(<<"2", ".", "7">>),
     Present(<<">=", "3", ".", "12">>)}

(***************************************************************************)
(* Paths and the filesystem (pathlib).                                     *)
(***************************************************************************)
\* the anchor of the current drive: Path.cwd().anchor
Drive == IF sys_platform = "win32" THEN "C:" ELSE "/"

\* the anchors a path may start with; a second drive exists on Windows only
Anchors == IF sys_platform = "win32" THEN {"C:", "D:"} ELSE {"/"}

\* the absolute path of the current drive with the given parts
P(parts) == <<Drive>> \o parts

\* Path.cwd()
cwd == P(<<"a", "b">>)

\* the directories and symbolic links that exist; everything else named in
\* the model is a regular file or does not exist
Directories ==
    {P(<<>>), P(<<"a">>), P(<<"a", "b">>), P(<<"a", "c">>)}
    \cup (IF sys_platform = "win32" THEN {<<"D:">>} ELSE {})

LinkPath == P(<<"a", "lnk">>)

\* the directories whose markers vary, nearest to cwd first
MarkedDirs == {P(<<"a", "b">>), P(<<"a">>), P(<<>>)}

IsPrefix(p, q) == Len(p) <= Len(q) /\ SubSeq(q, 1, Len(p)) = p

\* Path.resolve() raises RuntimeError("Symlink loop ...") on a path through a
\* link that leads back to itself (Python before 3.13)
ResolveRaises(table, path) ==
    \E l \in DOMAIN table : IsPrefix(l, path) /\ IsPrefix(l, table[l])

\* Path.resolve() under a table of links: a path through the link continues
\* from the link's target
ResolveWith(table, path) ==
    IF \E l \in DOMAIN table : IsPrefix(l, path)
    THEN LET l == CHOOSE l \in DOMAIN table : IsPrefix(l, path)
         IN table[l] \o SubSeq(path, Len(l) + 1, Len(path))
    ELSE path

\* path.parents: the proper ancestors, nearest first, ending with the anchor
Parents(path) == [i \in 1..(Len(path) - 1) |-> SubSeq(path, 1, Len(path) - i)]

\* path.is_dir() for a resolved path
is_dir(path) == path \in Directories

\* Path(Path.cwd(), src): an absolute src replaces cwd
JoinCwd(src) == IF Head(src) \in Anchors THEN src ELSE cwd \o src

NoMarkers == [git |-> "absent", hg |-> "absent", pyproject |-> "absent"]

MarkersOf(directory) ==
    IF directory \in DOMAIN markers THEN markers[directory] ELSE NoMarkers

(***************************************************************************)
(* functools.lru_cache, as _cached_resolve uses it.                        *)
(***************************************************************************)
CacheIndex(cache, key) == CHOOSE i \in 1..Len(cache) : cache[i][1] = key

CacheHas(cache, key) == \E i \in 1..Len(cache) : cache[i][1] = key

RemoveAt(seq, i) == SubSeq(seq, 1, i - 1) \o SubSeq(seq, i + 1, Len(seq))

\* a miss stores the new entry, dropping the least recently used one when full
LruInsert(cache, key, value) ==
    IF Len(cache) >= LruMaxsize
    THEN Append(Tail(cache), <<key, value>>)
    ELSE Append(cache, <<key, value>>)

\* a hit makes its entry the most recently used
LruTouch(cache, key) ==
    LET i == CacheIndex(cache, key) IN Append(RemoveAt(cache, i), cache[i])

\* _cached_resolve(path): the cache after the call, whether the call returned
\* or raised, the value returned, and whether Path.resolve() returned one (a
\* miss).  lru_cache stores an entry only when the wrapped function returns.
cached_resolve(cache, path) ==
    IF CacheHas(cache, path)
    THEN [cache |-> LruTouch(cache, path), status |-> "ok",
          value |-> cache[CacheIndex(cache, path)][2], miss |-> FALSE]
    ELSE IF ResolveRaises(links, path)
    THEN [cache |-> cache, status |-> "raise", value |-> <<>>, miss |-> FALSE]
    ELSE LET value == ResolveWith(links, path)
         IN [cache |-> LruInsert(cache, path, value), status |-> "ok",
             value |-> value, miss |-> TRUE]

RECURSIVE ResolveEach(_, _)
\* [_cached_resolve(p) for p in paths]: the cache afterwards and the values,
\* up to the first call that raises
ResolveEach(cache, paths) ==
    IF paths = <<>> THEN [cache |-> cache, values |-> <<>>, status |-> "ok"]
    ELSE LET first == cached_resolve(cache, Head(paths))
             rest == ResolveEach(first.cache, Tail(paths))
         IN IF first.status = "raise"
            THEN [cache |-> first.cache, values |-> <<>>, status |-> "raise"]
            ELSE [cache |-> rest.cache, values |-> <<first.value>> \o rest.values,
                  status |-> rest.status]

(***************************************************************************)
(* find_project_root                                                       *)
(***************************************************************************)
NoName == <<>>

Raised(exc) == [status |-> "raise", root |-> <<>>, reason |-> "", exc |-> exc]

Returned(root, reason) == [status |-> "ok", root |-> root, reason |-> reason, exc |-> ""]

NotCalled == [status |-> "unset", root |-> <<>>, reason |-> "", exc |-> ""]

\* tuple(stdin_filename if s == "-" else s for s in srcs)
SubstituteStdin(sources, name) ==
    IF name # NoName
    THEN [i \in 1..Len(sources) |-> IF sources[i] = <<"-">> THEN name ELSE sources[i]]
    ELSE sources

\* list(path.parents) + ([path] if path.is_dir() else [])
SrcParents(path) == Range(Parents(path)) \cup (IF is_dir(path) THEN {path} ELSE {})

\* a common base taken from the union of the ancestor lists
CommonCandidatesUnion(path_srcs) == UNION {SrcParents(path) : path \in Range(path_srcs)}

\* set.intersection(*(set(parents) for parents in src_parents))
CommonCandidates(path_srcs) ==
    {d \in UNION {SrcParents(path) : path \in Range(path_srcs)} :
        \A path \in Range(path_srcs) : d \in SrcParents(path)}

\* max(candidates, key=lambda path: path.parts).  The candidates are ancestors
\* of one path, so of any two one's parts are a prefix of the other's, and a
\* tuple is greater than its proper prefixes.
MaxByParts(candidates) ==
    CHOOSE d \in candidates : \A e \in candidates : IsPrefix(e, d) \/ ~IsPrefix(d, e)

\* "black" in pyproject_toml.get("tool", {}), by what the file holds
ToolHasBlack(pyproject) == pyproject \in {"tool.black", "tool string"}

\* a walk that asks for pyproject.toml before the version-control markers
CheckDirectoryPyprojectFirst(directory) ==
    LET m == MarkersOf(directory)
    IN  IF m.pyproject = "malformed" THEN Raised("TOMLDecodeError")
        ELSE IF m.pyproject = "tool number" THEN Raised("TypeError")
        ELSE IF m.pyproject \notin {"absent", "directory"} /\ ToolHasBlack(m.pyproject)
             THEN Returned(directory, "pyproject.toml")
        ELSE IF m.git # "absent" THEN Returned(directory, ".git directory")
        ELSE IF m.hg = "directory" THEN Returned(directory, ".hg directory")
        ELSE NotCalled

\* the body of the loop at one directory: a return, a raise, or NotCalled to
\* go on to the next directory
CheckDirectory(directory) ==
    LET m == MarkersOf(directory)
    IN  IF m.git # "absent" THEN Returned(directory, ".git directory")
        ELSE IF m.hg = "directory" THEN Returned(directory, ".hg directory")
        ELSE IF m.pyproject \notin {"absent", "directory"}
             THEN IF m.pyproject = "malformed" THEN Raised("TOMLDecodeError")
                  ELSE IF m.pyproject = "tool number" THEN Raised("TypeError")
                  ELSE IF ToolHasBlack(m.pyproject) THEN Returned(directory, "pyproject.toml")
                  ELSE NotCalled
        ELSE NotCalled

RECURSIVE Walk(_)
\* for directory in (common_base, *common_base.parents): ..., then the return
\* of the last directory visited
Walk(directories) ==
    LET here == CheckDirectory(Head(directories))
    IN  IF here # NotCalled THEN here
        ELSE IF Len(directories) = 1 THEN Returned(Head(directories), "file system root")
        ELSE Walk(Tail(directories))

\* find_project_root(srcs, stdin_filename) on a cache miss: the result and the
\* cache of _cached_resolve afterwards
find_project_root(sources, name) ==
    LET substituted == SubstituteStdin(sources, name)
        default == cached_resolve(resolve_cache, cwd)
        strings == IF substituted = <<>> THEN <<default.value>> ELSE substituted
        cache1 == IF substituted = <<>> THEN default.cache ELSE resolve_cache
        resolved == ResolveEach(cache1, [i \in 1..Len(strings) |-> JoinCwd(strings[i])])
        path_srcs == resolved.values
        candidates == CommonCandidates(path_srcs)
        common_base == MaxByParts(candidates)
    IN  IF substituted = <<>> /\ default.status = "raise"
        THEN [cache |-> default.cache, result |-> Raised("RuntimeError")]
        ELSE IF resolved.status = "raise"
        THEN [cache |-> resolved.cache, result |-> Raised("RuntimeError")]
        ELSE [cache |-> resolved.cache,
              result |-> IF candidates = {} THEN Raised("ValueError")
                         ELSE Walk(<<common_base>> \o Parents(common_base))]

(***************************************************************************)
(* find_user_pyproject_toml                                                *)
(***************************************************************************)
\* os.environ without the key XDG_CONFIG_HOME
EnvUnset == <<>>

NoPath == [status |-> "unset", value |-> <<>>]

PathReturned(value) == [status |-> "ok", value |-> value]

PathRaised == [status |-> "raise", value |-> <<>>]

\* Path(config_root).expanduser(): a leading "~" becomes the home directory
expanduser(path) ==
    IF path # <<>> /\ Head(path) = "~" THEN home \o Tail(path) ELSE path

\* user_config_path, by the platform, XDG_CONFIG_HOME and the home directory
UserConfigPath ==
    IF sys_platform = "win32" THEN home \o <<".black">>
    ELSE LET config_root == IF xdg_config_home = EnvUnset
                            THEN <<"~", ".config">>
                            ELSE xdg_config_home
         IN  expanduser(config_root) \o <<"black">>

\* the body of find_user_pyproject_toml: the value is kept by lru_cache only
\* when the body returns
UserBody(memo, cache) ==
    LET call == cached_resolve(cache, UserConfigPath)
    IN  [memo |-> IF call.status = "ok" THEN PathReturned(call.value) ELSE memo,
         cache |-> call.cache,
         result |-> IF call.status = "ok" THEN PathReturned(call.value) ELSE PathRaised,
         ran |-> TRUE,
         path |-> UserConfigPath,
         resolve |-> call]

\* a locator that computes its answer on every call
find_user_pyproject_toml_unmemoized(memo, cache) == UserBody(memo, cache)

\* find_user_pyproject_toml(): lru_cache answers from its entry when it has
\* one, and runs the body otherwise
find_user_pyproject_toml(memo, cache) ==
    IF memo.status = "ok"
    THEN [memo |-> memo, cache |-> cache, result |-> memo, ran |-> FALSE,
          path |-> <<>>, resolve |-> [cache |-> cache, status |-> "unset",
                                      value |-> <<>>, miss |-> FALSE]]
    ELSE UserBody(memo, cache)

(***************************************************************************)
(* The command lines and filesystems the locator is run on.                *)
(***************************************************************************)
Profile(git, hg, pyproject) == [git |-> git, hg |-> hg, pyproject |-> pyproject]

\* what one directory may hold
Profiles ==
    {NoMarkers,
     Profile("directory", "absent", "absent"),
     Profile("file", "absent", "absent"),
     Profile("absent", "directory", "absent"),
     Profile("absent", "file", "absent"),
     Profile("absent", "absent", "directory"),
     Profile("absent", "absent", "malformed"),
     Profile("absent", "absent", "no tool"),
     Profile("absent", "absent", "tool without black"),
     Profile("absent", "absent", "tool.black"),
     Profile("absent", "absent", "tool string"),
     Profile("absent", "absent", "tool number"),
     Profile("directory", "absent", "tool.black"),
     Profile("absent", "directory", "tool.black")}

\* what the anchor directory may hold
AnchorProfiles ==
    {NoMarkers, Profile("directory", "absent", "absent"),
     Profile("absent", "absent", "tool.black")}

SrcStrings ==
    {<<"-">>, <<"f.py">>, <<"new", "x.py">>, P(<<"a", "c", "g.py">>),
     P(<<"a", "lnk", "g.py">>), P(<<"a", "c">>), P(<<"a", "b">>)}
    \cup (IF sys_platform = "win32" THEN {<<"D:", "w.py">>} ELSE {})

StdinNames == {NoName, P(<<"a", "c", "g.py">>)}

(***************************************************************************)
(* The resolver's inputs: requires-python strings of at most MaxClauses    *)
(* specifiers.                                                             *)
(***************************************************************************)
InputReleases ==
    {<<3>>, <<3, 7>>, <<3, 10>>, <<3, 8, 0>>, <<3, 8, 5>>, <<2, 7>>}

InputOperators == {"~=", "==", "===", ">=", ">", "<", "<=", "!="}

InputSpecifiers ==
    {[operator |-> op, version |-> VersionStr(r)] :
        <<op, r>> \in {x \in InputOperators \X InputReleases :
                          x[1] = "~=" => Len(x[2]) >= 2}}
    \cup {[operator |-> op, version |-> VersionStr(r) \o <<".", "*">>] :
            <<op, r>> \in {"==", "!="} \X {<<3>>, <<3, 8>>}}

\* the specifier sets written with n clauses
InputSets(n) == {Range(f) : f \in [1..n -> InputSpecifiers]}

(***************************************************************************)
(* The environments and paths the user-scope locator and the path cache    *)
(* are run on.                                                             *)
(***************************************************************************)
\* values of XDG_CONFIG_HOME: unset, an absolute path through the link, and
\* a path under "~"
XdgValues == {EnvUnset, P(<<"a", "lnk">>), <<"~", "cfg">>}

HomeDirs == {P(<<"a", "lnk">>), P(<<"a", "c">>)}

\* what the link may point at: two directories, or itself
LinkTargets == {P(<<"a", "c">>), P(<<"a", "b">>), LinkPath}

\* the paths callers other than the user-scope locator resolve
ResolvePaths == {P(<<"a", "lnk", "black">>), P(<<"a", "c">>)}

(***************************************************************************)
(* States before any call.                                                 *)
(***************************************************************************)
NoResolve == [status |-> "unset", path |-> <<>>, value |-> <<>>]

NoUserCall == [state |-> "none", xdg |-> <<>>, home |-> <<>>]

NoUserFirst ==
    [state |-> "none", value |-> <<>>, xdg |-> <<>>, home |-> <<>>,
     links |-> <<>>, held |-> <<>>]

\* the user-scope locator and the path cache before any call
EnvStart(xdg, dir) ==
    /\ xdg_config_home = xdg
    /\ home = dir
    /\ user_cache = NoPath
    /\ user_result = NoPath
    /\ resolve_result = NoResolve
    /\ first_resolved = <<>>
    /\ resolved_again = {}
    /\ user_call = NoUserCall
    /\ user_first = NoUserFirst

\* the resolver before any call, holding the requires-python string req
VerStart(req) ==
    /\ requires_python = req
    /\ specifier_set = SpecifierSet(req)
    /\ strip_in = {}
    /\ strip_out = {}
    /\ nstrip = 0
    /\ targets = Unset

\* the loader before parse_pyproject_toml is called on the document doc
CfgStart(doc) ==
    /\ pyproject_toml = doc
    /\ config = <<>>
    /\ config_pc = "start"

\* a filesystem without root markers, its one link pointing at a/c
FsStart(platform) ==
    /\ sys_platform = platform
    /\ markers = [d \in MarkedDirs |-> NoMarkers]
    /\ links = [l \in {LinkPath} |-> P(<<"a", "c">>)]

\* the locator before any call, run on the given command line
RootStart(sources, name) ==
    /\ srcs = sources
    /\ stdin_filename = name
    /\ resolve_cache = <<>>
    /\ root_cache = NotCalled
    /\ root_result = NotCalled

(***************************************************************************)
(* The structured config loader as a state machine.                        *)
(***************************************************************************)
CfgInit ==
    /\ \E n \in 0..MaxKeys : \E table \in InputTables(n), requires \in InputRequires :
           CfgStart([black |-> table, requires |-> requires])
    /\ VerStart(<<>>)
    /\ FsStart("linux")
    /\ RootStart(<<>>, NoName)
    /\ EnvStart(EnvUnset, P(<<"a", "c">>))

\* config = parse_pyproject_toml(path_config)
ParsePyprojectToml ==
    /\ config_pc = "start"
    /\ config' = parse_pyproject_toml(pyproject_toml)
    /\ config_pc' = "done"
    /\ UNCHANGED <<pyproject_toml, notCfg>>

CfgNext == ParsePyprojectToml

SpecCfg == CfgInit /\ [][CfgNext]_vars

(***************************************************************************)
(* The version-specifier resolver as a state machine.                      *)
(***************************************************************************)
VerInit ==
    /\ \E n \in 0..MaxClauses : \E set \in InputSets(n) :
           VerStart(JoinSpecifiers(SetToSeq(set)))
    /\ CfgStart([black |-> <<>>, requires |-> Absent])
    /\ FsStart("linux")
    /\ RootStart(<<>>, NoName)
    /\ EnvStart(EnvUnset, P(<<"a", "c">>))

\* specifier_set = strip_specifier_set(specifier_set)
StripCall ==
    /\ nstrip < MaxStrips
    /\ strip_in' = specifier_set
    /\ strip_out' = strip_specifier_set(specifier_set)
    /\ specifier_set' = strip_out'
    /\ nstrip' = nstrip + 1
    /\ UNCHANGED <<requires_python, targets, notVer>>

\* targets = parse_req_python_specifier(requires_python)
ParseCall ==
    /\ targets = Unset
    /\ targets' = parse_req_python_specifier(requires_python)
    /\ UNCHANGED <<requires_python, specifier_set, strip_in, strip_out, nstrip, notVer>>

VerNext == StripCall \/ ParseCall

SpecVer == VerInit /\ [][VerNext]_vars

(***************************************************************************)
(* The project root locator as a state machine: one process, its command   *)
(* line and filesystem fixed, calling find_project_root any number of      *)
(* times.                                                                  *)
(***************************************************************************)
RootInit ==
    /\ sys_platform \in {"linux", "win32"}
    /\ markers \in {m \in [MarkedDirs -> Profiles] : m[P(<<>>)] \in AnchorProfiles}
    /\ links = [l \in {LinkPath} |-> P(<<"a", "c">>)]
    /\ \E n \in 0..MaxSrcs : \E f \in [1..n -> SrcStrings], name \in StdinNames :
           RootStart(SetToSeq(Range(f)), name)
    /\ VerStart(<<>>)
    /\ CfgStart([black |-> <<>>, requires |-> Absent])
    /\ EnvStart(EnvUnset, P(<<"a", "c">>))

\* find_project_root(srcs, stdin_filename), not in its lru_cache: the body
\* runs, and a returned value is kept (an exception is not)
FindProjectRoot ==
    /\ root_cache = NotCalled
    /\ LET call == find_project_root(srcs, stdin_filename)
       IN  /\ root_result' = call.result
           /\ resolve_cache' = call.cache
           /\ root_cache' = IF call.result.status = "ok" THEN call.result ELSE root_cache
    /\ UNCHANGED <<srcs, stdin_filename, fsVars, notRoot>>

\* find_project_root(srcs, stdin_filename), found in its lru_cache
FindProjectRootCached ==
    /\ root_cache # NotCalled
    /\ root_result' = root_cache
    /\ UNCHANGED <<srcs, stdin_filename, root_cache, resolve_cache, fsVars, notRoot>>

RootNext == FindProjectRoot \/ FindProjectRootCached

SpecRoot == RootInit /\ [][RootNext]_vars

(***************************************************************************)
(* The user-scope locator and the path cache as a state machine: one       *)
(* process calling find_user_pyproject_toml and _cached_resolve any number *)
(* of times while its environment and the filesystem's link change.        *)
(***************************************************************************)
EnvInit ==
    /\ sys_platform \in {"linux", "win32"}
    /\ markers = [d \in MarkedDirs |-> NoMarkers]
    /\ links = [l \in {LinkPath} |-> P(<<"a", "c">>)]
    /\ \E xdg \in XdgValues, dir \in HomeDirs : EnvStart(xdg, dir)
    /\ RootStart(<<>>, NoName)
    /\ VerStart(<<>>)
    /\ CfgStart([black |-> <<>>, requires |-> Absent])

\* the histories after a _cached_resolve(path) call with outcome call
FirstResolvedAfter(path, call) ==
    IF call.status = "ok" /\ path \notin DOMAIN first_resolved
    THEN first_resolved @@ (path :> call.value)
    ELSE first_resolved

ResolvedAgainAfter(path, call) ==
    IF call.miss /\ path \in DOMAIN first_resolved
    THEN resolved_again \cup {path}
    ELSE resolved_again

\* os.environ["XDG_CONFIG_HOME"] = value, or del os.environ["XDG_CONFIG_HOME"]
SetXdgConfigHome ==
    /\ \E value \in XdgValues : value # xdg_config_home /\ xdg_config_home' = value
    /\ UNCHANGED <<home, user_cache, user_result, histVars, links, resolve_cache, notEnv>>

\* the home directory changes (os.environ["HOME"], USERPROFILE)
SetHome ==
    /\ \E dir \in HomeDirs : dir # home /\ home' = dir
    /\ UNCHANGED <<xdg_config_home, user_cache, user_result, histVars, links,
                   resolve_cache, notEnv>>

\* the filesystem changes: the link is made to point elsewhere
Relink ==
    /\ \E target \in LinkTargets :
           /\ target # links[LinkPath]
           /\ links' = [l \in {LinkPath} |-> target]
    /\ UNCHANGED <<envVars, histVars, resolve_cache, notEnv>>

\* _cached_resolve(path), called by any caller
CachedResolve ==
    /\ \E path \in ResolvePaths :
           LET call == cached_resolve(resolve_cache, path)
           IN  /\ resolve_cache' = call.cache
               /\ resolve_result' = [status |-> call.status, path |-> path,
                                     value |-> call.value]
               /\ first_resolved' = FirstResolvedAfter(path, call)
               /\ resolved_again' = ResolvedAgainAfter(path, call)
    /\ UNCHANGED <<envVars, user_call, user_first, links, notEnv>>

\* find_user_pyproject_toml()
FindUserPyprojectToml ==
    /\ LET call == find_user_pyproject_toml(user_cache, resolve_cache)
       IN  /\ user_cache' = call.memo
           /\ user_result' = call.result
           /\ resolve_cache' = call.cache
           /\ resolve_result' =
                  IF call.ran
                  THEN [status |-> call.resolve.status, path |-> call.path,
                        value |-> call.resolve.value]
                  ELSE resolve_result
           /\ first_resolved' =
                  IF call.ran THEN FirstResolvedAfter(call.path, call.resolve)
                  ELSE first_resolved
           /\ resolved_again' =
                  IF call.ran THEN ResolvedAgainAfter(call.path, call.resolve)
                  ELSE resolved_again
           /\ user_call' = [state |-> "made", xdg |-> xdg_config_home, home |-> home]
           /\ user_first' =
                  IF user_first.state = "none" /\ call.result.status = "ok"
                  THEN [state |-> "set", value |-> call.result.value,
                        xdg |-> xdg_config_home, home |-> home,
                        links |-> links,
                        held |-> SelectSeq(resolve_cache,
                                           LAMBDA entry : entry[1] = call.path)]
                  ELSE user_first
    /\ UNCHANGED <<xdg_config_home, home, links, notEnv>>

EnvNext == SetXdgConfigHome \/ SetHome \/ Relink \/ CachedResolve \/ FindUserPyprojectToml

SpecEnv == EnvInit /\ [][EnvNext]_vars

(***************************************************************************)
(* Properties of the project root locator.                                 *)
(***************************************************************************)
\* the command line's sources after stdin substitution and resolution
ResolvedSources ==
    LET substituted == SubstituteStdin(srcs, stdin_filename)
    IN  IF substituted = <<>> THEN {ResolveWith(links, cwd)}
        ELSE {ResolveWith(links, JoinCwd(substituted[i])) : i \in 1..Len(substituted)}

\* a path's ancestor list: a directory counts itself, a file does not
AncestorList(path) ==
    {SubSeq(path, 1, n) : n \in 1..(Len(path) - 1)}
    \cup (IF path \in Directories THEN {path} ELSE {})

CommonAncestors == {d \in UNION {AncestorList(p) : p \in ResolvedSources} :
                       \A p \in ResolvedSources : d \in AncestorList(p)}

\* the common ancestor with the greatest number of path components
DeepestCommonAncestor ==
    CHOOSE d \in CommonAncestors : \A e \in CommonAncestors : Len(e) <= Len(d)

\* a root marker as the specification defines it
IsMarked(directory) ==
    LET m == MarkersOf(directory)
    IN m.git # "absent" \/ m.hg = "directory" \/ m.pyproject = "tool.black"

\* C1: for a non-empty command line, the directory find_project_root returns
\* is an ancestor of, or equal to, every resolved source path.
C1_RootIsAncestorOfSources ==
    (root_result.status = "ok" /\ srcs # <<>>)
        => \A p \in ResolvedSources : IsPrefix(root_result.root, p)

\* sources in two different directories have been given a marked root that is
\* neither's own directory
C1_Witness ==
    /\ root_result.status = "ok"
    /\ Len(srcs) = 2
    /\ P(<<"a", "b", "f.py">>) \in ResolvedSources
    /\ P(<<"a", "c", "g.py">>) \in ResolvedSources
    /\ root_result.root = P(<<"a">>)
    /\ root_result.reason # "file system root"

\* C2: the returned root is the first directory, walking nearest to farthest
\* from the deepest common ancestor of the sources, that has a .git path, a .hg
\* directory or a pyproject.toml file with a tool.black section; directories
\* nearer than the root carry no such marker, and without any marker the walk
\* ends at the anchor.
C2_ClosestMarkedDirectory ==
    root_result.status = "ok" =>
        LET base == DeepestCommonAncestor
            root == root_result.root
        IN  /\ IsPrefix(root, base)
            /\ \A n \in (Len(root) + 1)..Len(base) : ~IsMarked(SubSeq(base, 1, n))
            /\ IsMarked(root) \/ (Len(root) = 1 /\ root_result.reason = "file system root")

\* C3: find_project_root returns a (root, reason) pair for every input and
\* never raises; without a marker on the walk it returns the anchor with the
\* reason "file system root".
C3_NeverRaises ==
    /\ root_result.status # "raise"
    /\ (root_result.status = "ok"
        /\ \A n \in 1..Len(DeepestCommonAncestor) :
               ~IsMarked(SubSeq(DeepestCommonAncestor, 1, n)))
           => (Len(root_result.root) = 1 /\ root_result.reason = "file system root")

\* C4: a returned directory that holds a version-control marker is reported
\* with the version-control reason, also when it holds a pyproject.toml with a
\* tool.black section; the reason "pyproject.toml" is reported only for a
\* directory with neither a .git path nor a .hg directory.
C4_VersionControlReasonWins ==
    root_result.status = "ok" =>
        LET m == MarkersOf(root_result.root)
        IN  /\ m.git # "absent" => root_result.reason = ".git directory"
            /\ (m.git = "absent" /\ m.hg = "directory")
                   => root_result.reason = ".hg directory"
            /\ root_result.reason = "pyproject.toml"
                   => (m.git = "absent" /\ m.hg # "directory")

\* the walk has stopped at a directory holding both a .hg directory and a
\* pyproject.toml with a tool.black section, and reported the former
C4_Witness ==
    /\ root_result.status = "ok"
    /\ MarkersOf(root_result.root) = Profile("absent", "directory", "tool.black")
    /\ root_result.reason = ".hg directory"
    /\ Len(DeepestCommonAncestor) > Len(root_result.root)

(***************************************************************************)
(* Properties of the version-specifier resolver.                           *)
(***************************************************************************)
CandidateStr(minor) == <<"3", ".", StrOfInt(minor)>>

IsAscending(list) == \A i \in 1..(Len(list) - 1) : list[i] < list[i + 1]

\* C5: for the input "~=3.8.5" strip_specifier_set yields "~=3.8" and
\* parse_req_python_specifier yields exactly the one target version 3.8.
C5_PatchPinnedYieldsOnly38 ==
    (targets # Unset /\ requires_python = <<"~=", "3", ".", "8", ".", "5">>)
        => /\ strip_specifier_set(SpecifierSet(requires_python))
                = {[operator |-> "~=", version |-> <<"3", ".", "8">>]}
           /\ targets = Some(<<8>>)

\* C6: parse_req_python_specifier returns exactly the supported minor versions
\* that satisfy every clause of the normalized specifier set, in ascending
\* order, and nothing when no version does or the normalized set is empty;
\* ">=3.7,<3.10" yields [3.7, 3.8, 3.9].
C6_FilterIsIntersection ==
    targets # Unset =>
        LET normalized == strip_specifier_set(SpecifierSet(requires_python))
            satisfying == {v \in Range(TargetVersion) :
                              \A s \in normalized : Contains(s, CandidateStr(v))}
        IN  /\ (normalized = {} \/ satisfying = {}) => targets = None
            /\ (normalized # {} /\ satisfying # {}) =>
                   /\ targets.state = "list"
                   /\ Range(targets.list) = satisfying
                   /\ IsAscending(targets.list)
            /\ SpecifierSet(requires_python)
                   = {[operator |-> ">=", version |-> <<"3", ".", "7">>],
                      [operator |-> "<", version |-> <<"3", ".", "10">>]}
               => targets = Some(<<7, 8, 9>>)

\* two clauses that each exclude versions the other admits have been filtered
C6_Witness ==
    /\ SpecifierSet(requires_python)
           = {[operator |-> ">=", version |-> <<"3", ".", "7">>],
              [operator |-> "<", version |-> <<"3", ".", "10">>]}
    /\ targets = Some(<<7, 8, 9>>)

MajorMinorOnly(set) ==
    \A s \in set : Len(s.version) = 3 /\ s.version[2] = "." /\ ~IsWildcard(s)

\* C7: strip_specifier_set is idempotent: stripping a stripped set returns it
\* unchanged, and a set whose clauses are all major.minor-only is returned
\* unchanged.
C7_StripIdempotent ==
    /\ nstrip >= 2 => strip_out = strip_in
    /\ (nstrip >= 1 /\ MajorMinorOnly(strip_in)) => strip_out = strip_in

\* a set that the first call rewrote (a patch-level ">" clause among them) has
\* been stripped a second time
C7_Witness ==
    /\ nstrip = 2
    /\ strip_out # SpecifierSet(requires_python)
    /\ \E s \in SpecifierSet(requires_python) :
           s.operator = ">" /\ Len(Release(s.version)) > 2

(***************************************************************************)
(* Properties of the structured config loader.                             *)
(***************************************************************************)
Entries(dict) == {dict[i] : i \in 1..Len(dict)}

HasDoubleHyphen(k) == \E i \in 1..(Len(k) - 1) : k[i] = "-" /\ k[i + 1] = "-"

\* the length of the maximal run of hyphens that ends at position i of k
HyphenRunEndingAt(k, i) ==
    CHOOSE n \in 1..i : /\ \A j \in (i - n + 1)..i : k[j] = "-"
                        /\ (i = n \/ k[i - n] # "-")

\* what position i of a raw key leaves in the result key: a character other
\* than a hyphen stays, and a run of n hyphens leaves n mod 2 underscores
PieceAt(k, i) ==
    IF k[i] # "-" THEN <<k[i]>>
    ELSE IF (i = Len(k) \/ k[i + 1] # "-") /\ HyphenRunEndingAt(k, i) % 2 = 1 THEN <<"_">>
    ELSE <<>>

ExpectedKey(k) == Flatten([i \in 1..Len(k) |-> PieceAt(k, i)], <<>>)

\* C8 as claimed: apart from an inferred target_version entry, the result has
\* exactly one key per raw key, each raw key with its hyphens replaced by
\* underscores, mapped to that raw key's value.
C8_PureRenaming ==
    config_pc = "done" =>
        LET raw == pyproject_toml.black
            renamed == {[key |-> ReplaceHyphen(raw[i].key), value |-> raw[i].value] :
                           i \in 1..Len(raw)}
            inferred == {e \in Entries(config) :
                            /\ e.key = target_version
                            /\ \A i \in 1..Len(raw) : ReplaceHyphen(raw[i].key) # target_version}
        IN  /\ Entries(config) \ inferred = renamed
            /\ Cardinality({e.key : e \in Entries(config) \ inferred}) = Len(raw)

\* C8 as amended: every result key other than an inferred target_version is a
\* raw key with each "--" pair deleted and each remaining hyphen replaced by an
\* underscore, every raw key contributes its key so normalised, raw keys that
\* normalise alike share one result key holding the unaltered value of the last
\* of them, and a raw key without "--" is renamed by hyphen replacement alone.
C8_NormalizedRenaming ==
    config_pc = "done" =>
        LET raw == pyproject_toml.black
            rawKeys == {ExpectedKey(raw[i].key) : i \in 1..Len(raw)}
            base == {e \in Entries(config) :
                        ~(e.key = target_version /\ target_version \notin rawKeys)}
            last(key) == CHOOSE i \in 1..Len(raw) :
                             /\ ExpectedKey(raw[i].key) = key
                             /\ \A j \in (i + 1)..Len(raw) : ExpectedKey(raw[j].key) # key
        IN  /\ {e.key : e \in base} = rawKeys
            /\ \A e \in base : e.value = raw[last(e.key)].value
            /\ Cardinality(Keys(config)) = Len(config)
            /\ \A i \in 1..Len(raw) :
                   ~HasDoubleHyphen(raw[i].key) => ReplaceHyphen(raw[i].key) \in Keys(config)

\* a table has been normalised in which one key holds "--" and two keys
\* normalise to the same result key
C8_Witness ==
    /\ config_pc = "done"
    /\ \E i \in 1..Len(pyproject_toml.black) : HasDoubleHyphen(pyproject_toml.black[i].key)
    /\ Len(config) < Len(pyproject_toml.black)

(***************************************************************************)
(* Properties of the user-scope locator and the path cache.                *)
(***************************************************************************)
\* the location the environment names: Windows <home>/.black, otherwise
\* <XDG_CONFIG_HOME or ~/.config>/black, a leading "~" standing for home
EnvPath(platform, xdg, dir) ==
    IF platform = "win32" THEN dir \o <<".black">>
    ELSE IF xdg = EnvUnset THEN dir \o <<".config", "black">>
    ELSE IF Head(xdg) = "~" THEN dir \o Tail(xdg) \o <<"black">>
    ELSE xdg \o <<"black">>

\* C9 as stated: the value a find_user_pyproject_toml call returns is the
\* location named by the platform, XDG_CONFIG_HOME and home directory in
\* effect at that call, whatever the filesystem holds and whatever earlier
\* calls returned.
C9_PureFunctionOfEnvironment ==
    user_result.status = "ok" =>
        user_result.value = EnvPath(sys_platform, user_call.xdg, user_call.home)

\* C9 amended: every find_user_pyproject_toml call that returns gives the
\* value of the first call that returned, and that value is the location
\* named by the environment of that first call with its symbolic links
\* followed: the entry the path cache held for it, or else its resolution on
\* the filesystem of that moment.
C9_MemoizedResolvedPath ==
    user_result.status = "ok" =>
        /\ user_first.state = "set"
        /\ user_result.value = user_first.value
        /\ LET path == EnvPath(sys_platform, user_first.xdg, user_first.home)
           IN  IF user_first.held # <<>>
               THEN user_first.held = <<(<<path, user_first.value>>)>>
               ELSE user_first.value = ResolveWith(user_first.links, path)

\* a call returned after the environment changed since the first one: what
\* it returned is not what its own environment and filesystem give, and the
\* first call's value was changed by following a link
C9_Witness ==
    /\ user_result.status = "ok"
    /\ user_first.state = "set"
    /\ <<user_call.xdg, user_call.home>> # <<user_first.xdg, user_first.home>>
    /\ user_result.value # ResolveWith(links, EnvPath(sys_platform, user_call.xdg, user_call.home))
    /\ user_first.value # EnvPath(sys_platform, user_first.xdg, user_first.home)

\* C10: a _cached_resolve(p) call that returns gives the value its first
\* returning call for p gave; Path.resolve() runs at most once for a path;
\* and a call that raised left no entry for its path in the cache.
C10_CacheStability ==
    /\ resolve_result.status = "ok" =>
           resolve_result.value = first_resolved[resolve_result.path]
    /\ resolved_again = {}
    /\ resolve_result.status = "raise" =>
           ~CacheHas(resolve_cache, resolve_result.path)

====
